---- MODULE Spec2Model ----
(***************************************************************************)
(* Recent-files plugin (src/main.ts): a bounded most-recently-used list of *)
(* opened files, filtered by omitted path prefixes, persisted through the  *)
(* host's loadData/saveData and rendered by RecentFilesListView.           *)
(*                                                                         *)
(* Strings that the code inspects character by character (paths, the text  *)
(* of the settings text area) are sequences of one-character strings.      *)
(* A basename is only compared for equality and stays a plain string.      *)
(***************************************************************************)
EXTENDS Integers, Sequences, FiniteSets, TLC

VARIABLES
  data,        \* the one RecentFilesData object: DEFAULT_DATA, plugin.data and
               \* view.data all alias it (Object.assign returns its target)
  loads,       \* calls of loadData so far
  disk,        \* the persisted blob (data.json), possibly partial
  pending,     \* saves issued by saveData() whose write has not completed
  view,        \* "none": plugin.view undefined, "open", "closed"
  rows,        \* rows rendered into the view's content element
  activeFile,  \* workspace.getActiveFile(), NoFile for null
  last         \* what the last handler did

vars == <<data, loads, disk, pending, view, rows, activeFile, last>>

----------------------------------------------------------------------------
(* Bounds of the model *)

\* longest recentFiles array found in a persisted blob
MaxBlobFiles == 1
\* largest maxLength found in a persisted blob
MaxBlobLength == 2
\* saves in flight at once
MaxPending == 2
\* calls of loadData
MaxLoads == 2

----------------------------------------------------------------------------
(* Files and strings *)

NL == "\n"

\* interface File { path; basename }
File(p, b) == [path |-> p, basename |-> b]

\* null / undefined file handle
NoFile == File(<<>>, "")

\* files of the vault (vault.getFiles()); two of them share a basename
VaultFiles ==
  { File(<<"a">>, "a"), File(<<"d", "/", "a">>, "a"), File(<<"d", "/", "b">>, "b") }

\* a file that was deleted after it was recorded in data.json
StaleFile == File(<<"d", "/", "c">>, "c")

AllFiles == VaultFiles \cup {StaleFile}

SeqsUpTo(S, n) == UNION { [1..k -> S] : k \in 0..n }

\* values the settings text area delivers to onChange: the empty text, one
\* folder prefix, and two file paths around an empty line
Texts ==
  { <<>>,
    <<"d", "/">>,
    <<"a", NL, NL, "d", "/", "b">> }

Min(a, b) == IF a <= b THEN a ELSE b
Max(a, b) == IF a >= b THEN a ELSE b

\* String.prototype.startsWith
StartsWith(s, p) ==
  /\ Len(p) <= Len(s)
  /\ \A i \in 1..Len(p) : s[i] = p[i]

\* String.prototype.split("\n")
RECURSIVE Split(_)
Split(s) ==
  IF \A i \in 1..Len(s) : s[i] # NL
  THEN <<s>>
  ELSE LET i == CHOOSE j \in 1..Len(s) :
                  s[j] = NL /\ \A k \in 1..(j - 1) : s[k] # NL
       IN  <<SubSeq(s, 1, i - 1)>> \o Split(SubSeq(s, i + 1, Len(s)))

\* Array.prototype.splice(start, deleteCount, ...items), the array afterwards
Splice(arr, start, deleteCount, items) ==
  LET len  == Len(arr)
      from == IF start < 0 THEN Max(len + start, 0) ELSE Min(start, len)
      cnt  == Min(Max(deleteCount, 0), len - from)
  IN  SubSeq(arr, 1, from) \o items \o SubSeq(arr, from + cnt + 1, len)

----------------------------------------------------------------------------
(* RecentFilesData and the persisted blob *)

Fields == {"recentFiles", "omittedPaths", "maxLength"}

DEFAULT_DATA == [recentFiles |-> <<>>, omittedPaths |-> <<>>, maxLength |-> 5]

\* a blob is the set of fields it holds and their values (an absent field
\* carries a fixed filler that nothing reads)
Blob(has, rf, op, ml) ==
  [has          |-> has,
   recentFiles  |-> IF "recentFiles" \in has THEN rf ELSE <<>>,
   omittedPaths |-> IF "omittedPaths" \in has THEN op ELSE <<>>,
   maxLength    |-> IF "maxLength" \in has THEN ml ELSE 0]

\* mutant: maxLength is left out of the written object
Serialize_NoMaxLength(d) ==
  Blob(Fields \ {"maxLength"}, d.recentFiles, d.omittedPaths, d.maxLength)

\* what super.saveData(this.data) serialises: every field of the object
Serialize(d) == Blob(Fields, d.recentFiles, d.omittedPaths, d.maxLength)

\* Object.assign(target, source): own fields of source overwrite target's
ObjectAssign(target, source) ==
  [recentFiles  |-> IF "recentFiles" \in source.has
                    THEN source.recentFiles ELSE target.recentFiles,
   omittedPaths |-> IF "omittedPaths" \in source.has
                    THEN source.omittedPaths ELSE target.omittedPaths,
   maxLength    |-> IF "maxLength" \in source.has
                    THEN source.maxLength ELSE target.maxLength]

\* files found in a persisted recentFiles array, written by an earlier
\* session: one still in the vault, one since deleted
BlobFiles == { File(<<"a">>, "a"), StaleFile }

\* updateData never leaves two entries of one basename, so no saved list has
\* two (its length may exceed maxLength: maxLength is set by editing data.json)
DistinctBasenames(recentFiles) ==
  \A i, j \in DOMAIN recentFiles :
    i # j => recentFiles[i].basename # recentFiles[j].basename

\* omittedPaths arrays found in a persisted blob
BlobOmitted == { <<<<"d", "/">>>> }

\* blobs data.json can hold when the plugin starts
InitialBlobs ==
  { Blob(has, rf, op, ml) :
      has \in SUBSET Fields,
      rf \in { l \in SeqsUpTo(BlobFiles, MaxBlobFiles) : DistinctBasenames(l) },
      op \in BlobOmitted,
      ml \in 0..MaxBlobLength }

----------------------------------------------------------------------------
(* The plugin's methods, as functions of the handler's running state       *)
(*   m = [data, pending, rows, threw, saved, redrawn]                      *)
(* threw: a TypeError left the handler; saved / redrawn: the handler       *)
(* called super.saveData / replaced the content element's rows.            *)

Running(d, p, r) ==
  [data |-> d, pending |-> p, rows |-> r,
   threw |-> FALSE, saved |-> FALSE, redrawn |-> FALSE]

Throw(m) == [m EXCEPT !.threw = TRUE]

\* RecentFilesPlugin.loadData: Object.assign writes into DEFAULT_DATA itself
loadData(defaults, blob) == ObjectAssign(defaults, blob)

\* RecentFilesPlugin.saveData: super.saveData runs before the first await,
\* so the object is serialised as it is at the call; nobody awaits the write
saveData(m) ==
  [m EXCEPT !.pending = Append(@, Serialize(m.data)), !.saved = TRUE]

\* mutant: the empty lines are not filtered out
NonEmptyPaths_KeepEmpty(d) == d.omittedPaths

\* the omitted paths shouldAddFile looks at: .filter(path => path.length > 0)
NonEmptyPaths(d) == SelectSeq(d.omittedPaths, LAMBDA p : Len(p) > 0)

\* RecentFilesPlugin.shouldAddFile
shouldAddFile(d, file) ==
  ~ \E i \in 1..Len(NonEmptyPaths(d)) : StartsWith(file.path, NonEmptyPaths(d)[i])

\* shouldAddFile(null) reads null.path in the find callback, which runs only
\* when some omitted path is non-empty
shouldAddFileThrows(d, file) == file = NoFile /\ NonEmptyPaths(d) # <<>>

\* mutant: only the first excluded entry is removed
pruneOmittedFiles_FirstOnly(m) ==
  LET excluded == { i \in DOMAIN m.data.recentFiles :
                      ~shouldAddFile(m.data, m.data.recentFiles[i]) }
      first    == CHOOSE i \in excluded : \A j \in excluded : i <= j
  IN  IF excluded = {} THEN saveData(m)
      ELSE saveData([m EXCEPT !.data.recentFiles = Splice(@, first - 1, 1, <<>>)])

\* mutant: nothing is removed
pruneOmittedFiles_KeepAll(m) == saveData(m)

\* mutant: the list is pruned but never saved
pruneOmittedFiles_NoSave(m) ==
  [m EXCEPT !.data.recentFiles =
      SelectSeq(@, LAMBDA f : shouldAddFile(m.data, f))]

\* RecentFilesPlugin.pruneOmittedFiles
pruneOmittedFiles(m) ==
  saveData([m EXCEPT !.data.recentFiles =
                        SelectSeq(@, LAMBDA f : shouldAddFile(m.data, f))])

\* mutant: an existing entry is recognised by its path, not its basename
updateData_ByPath(m, file) ==
  IF file = NoFile THEN Throw(m)
  ELSE
    LET filtered == SelectSeq(m.data.recentFiles,
                           LAMBDA currFile : currFile.path # file.path)
        inserted == Splice(filtered, 0, 0, <<File(file.path, file.basename)>>)
        toRemove == Len(inserted) - m.data.maxLength
        trimmed  == IF toRemove > 0
                    THEN Splice(inserted, Len(inserted) - toRemove, toRemove, <<>>)
                    ELSE inserted
    IN  saveData([m EXCEPT !.data.recentFiles = trimmed])

\* mutant: the surplus is cut from the front of the list
updateData_TrimHead(m, file) ==
  IF file = NoFile THEN Throw(m)
  ELSE
    LET filtered == SelectSeq(m.data.recentFiles,
                           LAMBDA currFile : currFile.basename # file.basename)
        inserted == Splice(filtered, 0, 0, <<File(file.path, file.basename)>>)
        toRemove == Len(inserted) - m.data.maxLength
        trimmed  == IF toRemove > 0
                    THEN Splice(inserted, 0, toRemove, <<>>)
                    ELSE inserted
    IN  saveData([m EXCEPT !.data.recentFiles = trimmed])

\* mutant: the list is never cut
updateData_NoTrim(m, file) ==
  IF file = NoFile THEN Throw(m)
  ELSE
    LET filtered == SelectSeq(m.data.recentFiles,
                           LAMBDA currFile : currFile.basename # file.basename)
        inserted == Splice(filtered, 0, 0, <<File(file.path, file.basename)>>)
    IN  saveData([m EXCEPT !.data.recentFiles = inserted])

\* mutant: one entry too many survives the cut
updateData_KeepOneMore(m, file) ==
  IF file = NoFile THEN Throw(m)
  ELSE
    LET filtered == SelectSeq(m.data.recentFiles,
                           LAMBDA currFile : currFile.basename # file.basename)
        inserted == Splice(filtered, 0, 0, <<File(file.path, file.basename)>>)
        toRemove == Len(inserted) - m.data.maxLength - 1
        trimmed  == IF toRemove > 0
                    THEN Splice(inserted, Len(inserted) - toRemove, toRemove, <<>>)
                    ELSE inserted
    IN  saveData([m EXCEPT !.data.recentFiles = trimmed])

\* RecentFilesListView.updateData; with a null file the filter callback or
\* the object literal reads null.basename before anything is stored
updateData(m, file) ==
  IF file = NoFile THEN Throw(m)
  ELSE
    LET filtered == SelectSeq(m.data.recentFiles,
                           LAMBDA currFile : currFile.basename # file.basename)
        inserted == Splice(filtered, 0, 0, <<File(file.path, file.basename)>>)
        toRemove == Len(inserted) - m.data.maxLength
        trimmed  == IF toRemove > 0
                    THEN Splice(inserted, Len(inserted) - toRemove, toRemove, <<>>)
                    ELSE inserted
    IN  saveData([m EXCEPT !.data.recentFiles = trimmed])

\* mutant: "is-active" goes to the entry of the active file's path
Render_ByPath(recentFiles, openFile) ==
  [i \in 1..Len(recentFiles) |->
     [text   |-> recentFiles[i].basename,
      active |-> recentFiles[i].path = openFile.path]]

\* the rows redraw builds: one per entry, "is-active" on a basename match
Render(recentFiles, openFile) ==
  [i \in 1..Len(recentFiles) |->
     [text   |-> recentFiles[i].basename,
      active |-> recentFiles[i].basename = openFile.basename]]

\* RecentFilesListView.redraw; openFile.basename is read once per entry, so a
\* null active file throws exactly when the list is not empty, before the
\* content element is touched
redraw(m, openFile) ==
  IF openFile = NoFile /\ m.data.recentFiles # <<>> THEN Throw(m)
  ELSE [m EXCEPT !.rows = Render(m.data.recentFiles, openFile), !.redrawn = TRUE]

\* mutant: every opened file is recorded, omitted or not
update_NoFilter(m, openedFile, openFile) ==
  LET m1 == updateData(m, openedFile)
  IN  IF m1.threw THEN m1 ELSE redraw(m1, openFile)

\* RecentFilesListView.update, the "file-open" listener
update(m, openedFile, openFile) ==
  IF shouldAddFileThrows(m.data, openedFile) THEN Throw(m)
  ELSE IF ~shouldAddFile(m.data, openedFile) THEN m
  ELSE LET m1 == updateData(m, openedFile)
       IN  IF m1.threw THEN m1 ELSE redraw(m1, openFile)

\* mutant: the new lines are added to the paths already there
onChange_Append(m, value, v, openFile) ==
  LET m1 == [m EXCEPT !.data.omittedPaths = @ \o Split(value)]
      m2 == pruneOmittedFiles(m1)
  IN  IF v = "none" THEN Throw(m2) ELSE redraw(m2, openFile)

\* RecentFilesSettingTab: the text area's onChange; this.plugin.view is
\* undefined until the view factory has run
onChange(m, value, v, openFile) ==
  LET m1 == [m EXCEPT !.data.omittedPaths = Split(value)]
      m2 == pruneOmittedFiles(m1)
  IN  IF v = "none" THEN Throw(m2) ELSE redraw(m2, openFile)

\* mutant: find() without the basename test
ClickTargets_Any(targetFileName) == VaultFiles

\* RecentFilesListView.handleFileClick: the files find() may return
ClickTargets(targetFileName) ==
  { f \in VaultFiles : f.basename = targetFileName }

----------------------------------------------------------------------------
(* State machine *)

\* last.file: the file a click handed to openFile (NoFile when it opened none)
Idle == [op |-> "none", file |-> NoFile,
         threw |-> FALSE, saved |-> FALSE, redrawn |-> FALSE]

Did(op, m) ==
  [op |-> op, file |-> NoFile,
   threw |-> m.threw, saved |-> m.saved, redrawn |-> m.redrawn]

\* onload has run: its registrations follow loadData
loaded == loads > 0

\* the module has been evaluated and the plugin constructed; onload has not run
Init ==
  /\ data = DEFAULT_DATA
  /\ loads = 0
  /\ disk \in InitialBlobs
  /\ pending = <<>>
  /\ view = "none"
  /\ rows = <<>>
  /\ activeFile = NoFile
  /\ last = Idle

\* RecentFilesPlugin.onload: loadData, then the view type, the ribbon icon and
\* the setting tab are registered
OnLoad ==
  /\ loads = 0
  /\ data' = loadData(data, disk)
  /\ loads' = 1
  /\ last' = [Idle EXCEPT !.op = "load"]
  /\ UNCHANGED <<disk, pending, view, rows, activeFile>>

\* RecentFilesPlugin.initView (ribbon icon) with no leaf of the view type: the
\* view factory builds a new RecentFilesListView and onOpen subscribes it
InitView ==
  /\ loaded
  /\ view # "open"
  /\ view' = "open"
  /\ rows' = <<>>
  /\ last' = [Idle EXCEPT !.op = "open"]
  /\ UNCHANGED <<data, loads, disk, pending, activeFile>>

\* RecentFilesListView.onClose: the listener is removed; plugin.view still
\* refers to the closed view
CloseView ==
  /\ view = "open"
  /\ view' = "closed"
  /\ last' = [Idle EXCEPT !.op = "close"]
  /\ UNCHANGED <<data, loads, disk, pending, rows, activeFile>>

\* the handler's running state is stored back; a handler whose save would
\* exceed MaxPending writes in flight waits for a write to finish
Store(m) ==
  /\ Len(m.pending) <= MaxPending
  /\ data' = m.data
  /\ pending' = m.pending
  /\ rows' = m.rows

\* mutant: onClose leaves the listener in place
FileOpen_NeverUnsubscribed(f) ==
  /\ loaded
  /\ activeFile' = f
  /\ IF view # "none"
     THEN LET m == update(Running(data, pending, rows), f, f)
          IN  Store(m) /\ last' = Did("update", m)
     ELSE /\ last' = Idle
          /\ UNCHANGED <<data, pending, rows>>
  /\ UNCHANGED <<loads, disk, view>>

\* the workspace makes f (or no file) the active file; "file-open" reaches
\* update only while the view is subscribed
FileOpen(f) ==
  /\ loaded
  /\ activeFile' = f
  /\ IF view = "open"
     THEN LET m == update(Running(data, pending, rows), f, f)
          IN  Store(m) /\ last' = Did("update", m)
     ELSE /\ last' = Idle
          /\ UNCHANGED <<data, pending, rows>>
  /\ UNCHANGED <<loads, disk, view>>

\* the user edits the "Omitted paths" text area
OnChange(value) ==
  /\ loaded
  /\ LET m == onChange(Running(data, pending, rows), value, view, activeFile)
     IN  Store(m) /\ last' = Did("change", m)
  /\ UNCHANGED <<loads, disk, view, activeFile>>

\* the user clicks row i of the open view
Click(i) ==
  /\ view = "open"
  /\ i \in DOMAIN rows
  /\ IF ClickTargets(rows[i].text) = {}
     THEN last' = [Idle EXCEPT !.op = "click"]
     ELSE \E targetFile \in ClickTargets(rows[i].text) :
            last' = [Idle EXCEPT !.op = "click", !.file = targetFile]
  /\ UNCHANGED <<data, loads, disk, pending, view, rows, activeFile>>

\* the host finishes the oldest write
CompleteSave ==
  /\ pending # <<>>
  /\ disk' = Head(pending)
  /\ pending' = Tail(pending)
  /\ UNCHANGED <<data, loads, view, rows, activeFile, last>>

Next ==
  \/ OnLoad
  \/ InitView
  \/ CloseView
  \/ \E f \in VaultFiles \cup {NoFile} : FileOpen(f)
  \/ \E value \in Texts : OnChange(value)
  \/ \E i \in DOMAIN rows : Click(i)
  \/ CompleteSave

\* the plugin under the host's lifecycle: onload runs once
Spec == Init /\ [][Next]_vars

\* a first run, or one whose data.json holds no recentFiles: the list starts
\* empty
InitFresh == Init /\ "recentFiles" \notin disk.has

SpecFresh == InitFresh /\ [][Next]_vars

\* RecentFilesPlugin.loadData called again on the loaded plugin: the target of
\* Object.assign is the DEFAULT_DATA object the earlier handlers have written
Reload ==
  /\ loaded
  /\ loads < MaxLoads
  /\ data' = loadData(data, disk)
  /\ loads' = loads + 1
  /\ last' = [Idle EXCEPT !.op = "load"]
  /\ UNCHANGED <<disk, pending, view, rows, activeFile>>

SpecReload == Init /\ [][Next \/ Reload]_vars

----------------------------------------------------------------------------
(* Vocabulary of the properties *)

\* this step is a "file-open" for f that reaches updateData (a touch of f)
Touch(f) == FileOpen(f) /\ view = "open" /\ shouldAddFile(data, f)

\* this step is a "file-open" for f that update discards
Discard(f) == FileOpen(f) /\ view = "open" /\ ~shouldAddFile(data, f)

\* this step mutates RecentList or OmittedPaths
Mutation ==
  \/ \E f \in VaultFiles : Touch(f)
  \/ \E value \in Texts : OnChange(value)

\* the last handler was a touch / an omitted-path change that ran to its save
Touched == last.op = "update" /\ last.saved
Pruned == last.op = "change" /\ last.saved

Basenames(recentFiles) == { recentFiles[i].basename : i \in DOMAIN recentFiles }

\* p is a prefix of s, by comparing the leading segment
IsPrefix(p, s) == Len(p) <= Len(s) /\ SubSeq(s, 1, Len(p)) = p

\* the list touch(f) is specified to produce
TouchRef(recentFiles, f, maxLength) ==
  LET others == SelectSeq(recentFiles, LAMBDA e : e.basename # f.basename)
      full   == <<f>> \o others
  IN  [i \in 1..Min(maxLength, Len(full)) |-> full[i]]

----------------------------------------------------------------------------
\* the data pruneOmittedFiles leaves, from data d
PruneOnce(d) == pruneOmittedFiles(Running(d, <<>>, <<>>)).data

(* C11: pruning twice in a row gives the list that pruning once gives, for   *)
(* the current list under the current omitted paths and under every text    *)
(* the settings tab can deliver.                                            *)
C11_PruneIdempotent ==
  \A op \in {data.omittedPaths} \cup { Split(value) : value \in Texts } :
    LET once == PruneOnce([data EXCEPT !.omittedPaths = op])
    IN  PruneOnce(once).recentFiles = once.recentFiles

\* an omitted-path change has just pruned two entries and kept one
C11_Witness ==
  /\ Pruned
  /\ pending # <<>>
  /\ Len(data.recentFiles) = 1
  /\ \E i \in DOMAIN pending :
       /\ Len(pending[i].recentFiles) = 3
       /\ Cardinality({ k \in 1..3 :
                          ~shouldAddFile(data, pending[i].recentFiles[k]) }) = 2

(* C1: after every mutation of RecentList (a touch or a prune), from any     *)
(* loaded state, the list is no longer than maxLength. The handlers that     *)
(* raised an error are left out, so that a violation is the list's own.      *)
C1_LengthBound ==
  ((Touched \/ Pruned) /\ ~last.threw) =>
    Len(data.recentFiles) <= data.maxLength

(* C2: starting from the empty list, no two entries of RecentList ever have  *)
(* the same basename, also when files sharing a basename are opened.         *)
C2_UniqueBasenames ==
  \A i, j \in DOMAIN data.recentFiles :
    i # j => data.recentFiles[i].basename # data.recentFiles[j].basename

\* d/a was touched while the list held other entries
C2_Witness ==
  /\ Touched
  /\ activeFile = File(<<"d", "/", "a">>, "a")
  /\ Len(data.recentFiles) >= 2
  /\ data.recentFiles[1] = activeFile

(* C3 as stated: right after touch(f) the entry at position 0 is f, for      *)
(* every maxLength >= 0.                                                     *)
C3_HeadAfterTouch ==
  Touched => data.recentFiles # <<>> /\ data.recentFiles[1] = activeFile

(* C3 as amended: right after touch(f) with maxLength >= 1 the entry at      *)
(* position 0 is f; with maxLength = 0 the list is empty.                    *)
C3_HeadAfterTouchAmended ==
  Touched =>
    IF data.maxLength >= 1
    THEN data.recentFiles # <<>> /\ data.recentFiles[1] = activeFile
    ELSE data.recentFiles = <<>>

\* a touch moved its file to the head of a list of several entries
C3_Witness ==
  /\ Touched
  /\ data.maxLength >= 1
  /\ Len(data.recentFiles) >= 2
  /\ data.recentFiles[1] = activeFile

(* C4: a touch of f leaves f followed by the previous entries of other       *)
(* basenames in their order, cut to the first maxLength entries.             *)
C4_TouchIsReference ==
  [][\A f \in VaultFiles :
       Touch(f) =>
         data'.recentFiles = TouchRef(data.recentFiles, f, data.maxLength)]_vars

\* a touch on a full list of two evicted the tail of the list saved before it
C4_Witness ==
  /\ Touched
  /\ data.maxLength = 2
  /\ Len(data.recentFiles) = 2
  /\ Len(pending) = 2
  /\ Len(pending[1].recentFiles) = 2
  /\ pending[1].recentFiles[2].basename \notin Basenames(data.recentFiles)
  /\ pending[1].recentFiles[1] = data.recentFiles[2]

(* C5: shouldTrack(f) is false exactly when some non-empty omitted path is   *)
(* a prefix of f.path; empty entries exclude nothing.                        *)
C5_ShouldTrackIffPrefix ==
  \A f \in AllFiles :
    shouldAddFile(data, f) <=>
      ~ \E i \in DOMAIN data.omittedPaths :
           /\ data.omittedPaths[i] # <<>>
           /\ IsPrefix(data.omittedPaths[i], f.path)

\* an empty line between two prefixes: some files are excluded, some are not
C5_Witness ==
  /\ \E i \in DOMAIN data.omittedPaths : data.omittedPaths[i] = <<>>
  /\ \E i \in DOMAIN data.omittedPaths : data.omittedPaths[i] # <<>>
  /\ \E f \in VaultFiles : shouldAddFile(data, f)
  /\ \E f \in VaultFiles : ~shouldAddFile(data, f)

(* C6: a file-open for a file that is not tracked changes neither the list,  *)
(* the omitted paths, maxLength, the persisted state (no save) nor the view  *)
(* (no redraw).                                                              *)
C6_DiscardChangesNothing ==
  [][\A f \in VaultFiles :
       Discard(f) =>
         /\ UNCHANGED <<data, disk, pending, rows>>
         /\ ~last'.saved /\ ~last'.redrawn]_vars

\* an omitted file was opened while the list and the view were not empty
C6_Witness ==
  /\ last.op = "update"
  /\ ~last.saved /\ ~last.threw
  /\ activeFile \in VaultFiles
  /\ ~shouldAddFile(data, activeFile)
  /\ data.recentFiles # <<>>
  /\ rows # <<>>

(* C7: no handler ever raises an error.                                      *)
C7_NoError == ~last.threw

(* C8: every touch and every omitted-path change issues a save of the state  *)
(* it leaves, and when the last pending save is applied the persisted state  *)
(* is the in-memory state.                                                   *)
C8_SaveAfterMutation ==
  [][/\ Mutation => pending' = Append(pending, Serialize(data'))
     /\ (pending # <<>> /\ pending' = <<>>) => disk' = Serialize(data')]_vars

\* the save of an omitted-path change has been applied
C8_Witness ==
  /\ Pruned
  /\ pending = <<>>
  /\ disk = Serialize(data)
  /\ data.recentFiles # <<>>

(* C9: no event mutates the state while a save issued by an earlier event    *)
(* is still pending (events whose handler raises an error left out).         *)
C9_NoOverlap == [][(Mutation /\ ~last'.threw) => pending = <<>>]_vars

C12_ViewSynchronized ==
  (view = "open" /\ (Touched \/ Pruned)) =>
    /\ Len(rows) = Len(data.recentFiles)
    /\ \A i \in DOMAIN rows : rows[i].text = data.recentFiles[i].basename

\* rows marked active
ActiveRows == { i \in DOMAIN rows : rows[i].active }

(* C13: after a redraw a row is marked active exactly when its basename is   *)
(* the active file's; never more than one row is marked, after a redraw      *)
(* exactly one if the active file's basename is in RecentList and none       *)
(* otherwise.                                                                *)
C13_ActiveRow ==
  /\ Cardinality(ActiveRows) <= 1
  /\ last.redrawn =>
       /\ \A i \in DOMAIN rows :
            rows[i].active <=> rows[i].text = activeFile.basename
       /\ Cardinality(ActiveRows) =
            IF activeFile.basename \in Basenames(data.recentFiles) THEN 1 ELSE 0

\* an omitted-path change redrew the list while the active file is the other
\* file of the second entry's basename
C13_Witness ==
  /\ Pruned /\ last.redrawn
  /\ Len(rows) >= 2
  /\ ActiveRows = {2}
  /\ data.recentFiles[2].basename = activeFile.basename
  /\ data.recentFiles[2].path # activeFile.path

(* C14: a click on a row whose basename no vault file has opens nothing and  *)
(* leaves RecentList, OmittedPaths and the saved state as they were, the     *)
(* stale entry included; a click on a row some vault file matches asks for a *)
(* file of that basename to be opened and does not change RecentList.        *)
C14_Click ==
  [][\A i \in DOMAIN rows : Click(i) =>
       /\ UNCHANGED <<data, disk, pending>>
       /\ IF \E f \in VaultFiles : f.basename = rows[i].text
          THEN last'.file \in VaultFiles /\ last'.file.basename = rows[i].text
          ELSE last'.file = NoFile]_vars

\* a click on the row of the stale entry opened nothing; the entry is still
\* listed below a vault file's
C14_Witness ==
  /\ last.op = "click" /\ last.file = NoFile
  /\ Len(data.recentFiles) = 2
  /\ data.recentFiles[2] = StaleFile
  /\ rows[2].text = StaleFile.basename

Cuts(value) ==
  {0, Len(value) + 1} \cup { i \in DOMAIN value : value[i] = NL }

Cut(value, k) ==
  CHOOSE c \in Cuts(value) : Cardinality({ x \in Cuts(value) : x < c }) = k

Lines(value) ==
  [k \in 1..(Cardinality(Cuts(value)) - 1) |->
     SubSeq(value, Cut(value, k - 1) + 1, Cut(value, k) - 1)]

(* C16: an omitted-path change makes OmittedPaths the lines of the new text, *)
(* nothing kept of the old ones; RecentList becomes the previous entries     *)
(* that are tracked under the new OmittedPaths, in their previous order;     *)
(* maxLength stays.                                                          *)
C16_OmittedPathChange ==
  [][\A value \in Texts : OnChange(value) =>
       /\ data'.omittedPaths = Lines(value)
       /\ data'.recentFiles =
            SelectSeq(data.recentFiles, LAMBDA f : shouldAddFile(data', f))
       /\ data'.maxLength = data.maxLength]_vars

\* one prefix has just been replaced by three lines, which removed one of
\* two entries; both writes are still on their way to the disk
C16_Witness ==
  /\ Pruned /\ Len(pending) = 2
  /\ pending[2] = Serialize(data)
  /\ Len(pending[1].omittedPaths) = 1 /\ pending[1].omittedPaths[1] # <<>>
  /\ Len(data.omittedPaths) = 3
  /\ Len(pending[1].recentFiles) = 2
  /\ Len(data.recentFiles) = 1

(* C17: with maxLength 0 the list is empty after every touch, whatever file  *)
(* was opened and whatever the list held before.                             *)
C17_ZeroLength ==
  (Touched /\ data.maxLength = 0) => data.recentFiles = <<>>

\* a touch with maxLength 0 has emptied the list loaded from a blob that
\* held an entry; its write is still pending
C17_Witness ==
  /\ Touched /\ data.maxLength = 0
  /\ Len(pending) = 1
  /\ {"recentFiles", "maxLength"} \subseteq disk.has
  /\ disk.maxLength = 0
  /\ disk.recentFiles # <<>>

(* C18: a touch of the file that already heads the list, same basename and   *)
(* path, leaves the list as it was, and still issues a save and a redraw.    *)
C18_TouchHeadIdempotent ==
  [][\A f \in VaultFiles :
       (Touch(f) /\ data.recentFiles # <<>> /\ data.recentFiles[1] = f) =>
         /\ data'.recentFiles = data.recentFiles
         /\ last'.saved /\ last'.redrawn]_vars

(* C19: starting from the empty list, every entry of RecentList is tracked   *)
(* under the current OmittedPaths, in every reachable state.                 *)
C19_AllTracked ==
  \A i \in DOMAIN data.recentFiles : shouldAddFile(data, data.recentFiles[i])

\* an omitted-path change has removed an entry that was touched into the
\* empty list, and kept another under a prefix that excludes other files
C19_Witness ==
  /\ Pruned /\ Len(pending) = 2
  /\ Len(pending[1].recentFiles) = 2
  /\ Len(data.recentFiles) = 1
  /\ \E f \in VaultFiles : ~shouldAddFile(data, f)

(* C20: a file-open changes RecentList only while the list view is open: one *)
(* that comes before the view was first opened, or after it was closed,      *)
(* leaves RecentList, the rest of the data, the disk, the pending writes and *)
(* the rows as they were.                                                    *)
C20_OnlyWhileOpen ==
  [][\A f \in VaultFiles \cup {NoFile} :
       (FileOpen(f) /\ view # "open") =>
         UNCHANGED <<data, disk, pending, rows>>]_vars

\* after the view was closed a tracked file that is not in the list became
\* the active file, and the list still holds what it held
C20_Witness ==
  /\ view = "closed" /\ last = Idle
  /\ activeFile \in VaultFiles
  /\ shouldAddFile(data, activeFile)
  /\ data.recentFiles # <<>>
  /\ activeFile.basename \notin Basenames(data.recentFiles)

====
